---- MODULE Spec2Model ----
(***************************************************************************)
(* A model of backend/onyx/connectors/google_drive/connector.py: the       *)
(* construction of GoogleDriveConnector, the resolution of the requested   *)
(* scope (_clean_requested_drive_ids), the two retrieval orchestrations    *)
(* (_manage_service_account_retrieval with _impersonate_user_for_retrieval,*)
(* and _manage_oauth_retrieval) and the two batch assemblers               *)
(* (_extract_docs_from_google_drive, _extract_slim_docs_from_google_drive).*)
(*                                                                         *)
(* Container IDs are the numbers 1..NumIds, principals the numbers         *)
(* 1..NumPrincipals (1 is the primary admin).  The functions of            *)
(* file_retrieval.py are not part of connector.py; their effect on the     *)
(* ledger is modelled from the specification's sections 4.1 and 4.3.       *)
(***************************************************************************)
EXTENDS Integers, Sequences, FiniteSets, TLC

\* ---------------------------------------------------------------- bounds
NumIds == 2
NumPrincipals == 2
MaxRuns == 2
MaxItems == 4
MaxBatchSize == 2
\* shared_constants.SLIM_BATCH_SIZE, scaled down to the size of the streams
SLIM_BATCH_SIZE == 2

VARIABLES ctor, res, bat, self, world, run, obs

vars == <<ctor, res, bat, self, world, run, obs>>

\* the variables of the retrieval orchestration
crawlVars == <<self, world, run, obs>>

\* the value a specification gives to the variables it does not use
Unused == [used |-> FALSE]

Ids == 1..NumIds
Principals == 1..NumPrincipals

\* ------------------------------------------------ parameter normalisation
(* A comma separated parameter is the sequence of its fields (what          *)
(* string.split(",") returns); None is the empty sequence.  A field is     *)
(* [ws, segs]: segs is what field.strip().split("/") returns, without the  *)
(* empty text (the empty text has no segment), and ws says that the field  *)
(* carries surrounding white space.  A segment is a container ID or 0 (any *)
(* other path word).                                                       *)
NoneStr == << >>
EmptyField == [ws |-> FALSE, segs |-> << >>]
SpaceField == [ws |-> TRUE, segs |-> << >>]

\* bool(string): None and "" are false, every other string is true.
Truthy(string) == string # NoneStr /\ string # <<EmptyField>>

\* s.strip()
strip(f) == [f EXCEPT !.ws = FALSE]

_extract_str_list_from_comma_str(string) ==
    IF ~Truthy(string) THEN << >>
    ELSE LET stripped == [i \in 1..Len(string) |-> strip(string[i])]
         IN  SelectSeq(stripped, LAMBDA f : f.segs # << >>)

_extract_ids_from_urls(urls) ==
    [i \in 1..Len(urls) |-> urls[i].segs[Len(urls[i].segs)]]

SetOf(seq) == {seq[i] : i \in 1..Len(seq)}

\* ------------------------------------------------------------- construction
\* the comma separated parameter that lists the elements of S in order, the
\* first one with surrounding white space; the empty S gives None
RECURSIVE FieldsOf(_, _, _)
FieldsOf(S, n, prefix) ==
    IF n = 0 THEN << >>
    ELSE IF n \in S
         THEN Append(FieldsOf(S, n - 1, prefix), [ws |-> FALSE, segs |-> prefix \o <<n>>])
         ELSE FieldsOf(S, n - 1, prefix)

CommaStr(S, n, prefix) ==
    LET fs == FieldsOf(S, n, prefix)
    IN  IF fs = << >> THEN NoneStr ELSE [fs EXCEPT ![1].ws = TRUE]

\* the URL of container id is ".../folders/<id>", the address of principal p
\* is a text without "/"
UrlPrefix == <<0, 0>>
EmailOf(p) == <<p>>

\* lines 157-169: the constructor raises ConnectorValidationError
NothingToIndex(a) ==
    /\ ~a.include_shared_drives
    /\ ~a.include_my_drives
    /\ ~a.include_files_shared_with_me
    /\ ~Truthy(a.shared_folder_urls)
    /\ ~Truthy(a.my_drive_emails)
    /\ ~Truthy(a.shared_drive_urls)

\* lines 173-175
specific_requests_made(a) ==
    Truthy(a.shared_drive_urls) \/ Truthy(a.my_drive_emails) \/ Truthy(a.shared_folder_urls)

Constructed_keep_flags(a, creds) ==
    [include_files_shared_with_me |-> a.include_files_shared_with_me,
     include_my_drives |-> a.include_my_drives,
     include_shared_drives |-> a.include_shared_drives,
     _requested_shared_drive_ids |->
         SetOf(_extract_ids_from_urls(_extract_str_list_from_comma_str(a.shared_drive_urls))),
     _requested_my_drive_emails |->
         {f.segs : f \in SetOf(_extract_str_list_from_comma_str(a.my_drive_emails))},
     _requested_folder_ids |->
         SetOf(_extract_ids_from_urls(_extract_str_list_from_comma_str(a.shared_folder_urls))),
     _creds |-> creds,
     _retrieved_ids |-> {}]

\* lines 171-201: the connector GoogleDriveConnector.__init__ leaves, with the
\* credentials load_credentials stores in it (lines 233-248)
Constructed(a, creds) ==
    [include_files_shared_with_me |->
         IF specific_requests_made(a) THEN FALSE ELSE a.include_files_shared_with_me,
     include_my_drives |->
         IF specific_requests_made(a) THEN FALSE ELSE a.include_my_drives,
     include_shared_drives |->
         IF specific_requests_made(a) THEN FALSE ELSE a.include_shared_drives,
     _requested_shared_drive_ids |->
         SetOf(_extract_ids_from_urls(_extract_str_list_from_comma_str(a.shared_drive_urls))),
     _requested_my_drive_emails |->
         {f.segs : f \in SetOf(_extract_str_list_from_comma_str(a.my_drive_emails))},
     _requested_folder_ids |->
         SetOf(_extract_ids_from_urls(_extract_str_list_from_comma_str(a.shared_folder_urls))),
     _creds |-> creds,
     _retrieved_ids |-> {}]

\* the arguments the constructor is called with
CtorArgs ==
    [include_shared_drives : BOOLEAN, include_my_drives : BOOLEAN,
     include_files_shared_with_me : BOOLEAN,
     shared_drive_urls : {CommaStr(S, NumIds, UrlPrefix) : S \in SUBSET Ids}
                             \cup {<<EmptyField, SpaceField>>},
     my_drive_emails : {CommaStr(S, NumPrincipals, << >>) : S \in SUBSET Principals},
     shared_folder_urls : {CommaStr(S, NumIds, UrlPrefix) : S \in SUBSET Ids}]

\* ------------------------------------------------------------ ScopeResolver
_clean_requested_drive_ids_nomove(requested_drive_ids, requested_folder_ids, all_drive_ids_available) ==
    LET invalid_requested_drive_ids ==
            requested_drive_ids \ all_drive_ids_available
        filtered_folder_ids == requested_folder_ids \ all_drive_ids_available
    IN  <<requested_drive_ids \ invalid_requested_drive_ids, filtered_folder_ids>>

_clean_requested_drive_ids(requested_drive_ids, requested_folder_ids, all_drive_ids_available) ==
    LET invalid_requested_drive_ids ==
            requested_drive_ids \ all_drive_ids_available
        filtered_folder_ids0 == requested_folder_ids \ all_drive_ids_available
        filtered_folder_ids ==
            IF invalid_requested_drive_ids # {}
            THEN filtered_folder_ids0 \cup invalid_requested_drive_ids
            ELSE filtered_folder_ids0
        valid_requested_drive_ids ==
            requested_drive_ids \ invalid_requested_drive_ids
    IN  <<valid_requested_drive_ids, filtered_folder_ids>>


\* ------------------------------------------------- retrieval: the operators
\* lines 380-389 and 463-472: the scope of a run
ResolvedScope(s, all_drive_ids) ==
    IF s._requested_shared_drive_ids # {} \/ s._requested_folder_ids # {}
    THEN _clean_requested_drive_ids(s._requested_shared_drive_ids, s._requested_folder_ids, all_drive_ids)
    ELSE IF s.include_shared_drives THEN <<all_drive_ids, {}>>
    ELSE <<{}, {}>>

\* lines 453-457
all_requested_never(s) == FALSE

all_requested(s) ==
    s.include_files_shared_with_me /\ s.include_my_drives /\ s.include_shared_drives

\* lines 322-330: what the access probe's HttpError does
OnProbeError_raise(status_code) == "raise"

OnProbeError(status_code) == IF status_code = 401 THEN "return" ELSE "raise"

\* line 336
my_drive_in_scope_always(s, user_email) == TRUE

my_drive_in_scope(s, user_email) ==
    s.include_my_drives \/ user_email \in s._requested_my_drive_emails

\* line 346
remaining_drive_ids(filtered_drive_ids, retrieved_ids) == filtered_drive_ids \ retrieved_ids

\* lines 358 and 489
remaining_folders_all(filtered_folder_ids, retrieved_ids) == filtered_folder_ids

remaining_folders(filtered_folder_ids, retrieved_ids) == filtered_folder_ids \ retrieved_ids

\* lines 419-421 and 503-505
not_retrieved(drive_ids_to_retrieve, folder_ids_to_retrieve, retrieved_ids) ==
    (drive_ids_to_retrieve \cup folder_ids_to_retrieve) \ retrieved_ids

(* file_retrieval.py.  A listing call of principal p for container c either *)
(* reaches c (its items are yielded and c is marked visited through         *)
(* update_traversed_ids_func) or does not (nothing is yielded or marked).   *)
(* world.access[p][c] remembers what p found, "?" while p never asked.      *)
AccessOf(p) ==
    {acc \in [Ids -> BOOLEAN] :
        \A c \in Ids : /\ world.access[p][c] = "yes" => acc[c]
                       /\ world.access[p][c] = "no" => ~acc[c]}

Asked(p, called, acc) ==
    [world EXCEPT !.access[p] =
        [c \in Ids |-> IF c \in called THEN (IF acc[c] THEN "yes" ELSE "no") ELSE @[c]]]

children(f) == {c \in Ids : world.parent[c] = f}

\* the IDs crawl_folders_for_files is called with, from the call for
\* parent_id down: a reached folder is marked, its children are listed, and
\* the crawl recurses into every child that is not in the ledger
RECURSIVE crawl_folders_for_files(_, _, _)
crawl_folders_for_files(parent_id, traversed_parent_ids, acc) ==
    {parent_id} \cup
        IF acc[parent_id]
        THEN UNION {crawl_folders_for_files(g, traversed_parent_ids, acc) :
                        g \in children(parent_id) \ traversed_parent_ids}
        ELSE {}

\* the trees of folders over the IDs that are no catalog drive
Parents(cat) ==
    {par \in [Ids -> 0..NumIds] :
        \A c \in Ids : par[c] # 0 => par[c] < c /\ c \notin cat /\ par[c] \notin cat}

\* ------------------------------------------------------------ BatchAssembler
(* The retrieval stream (_fetch_drive_items) is the sequence bat.conv: item *)
(* k of the stream is the number k, and bat.conv[k] says what converting it *)
(* does: "doc" (a record), "none" (convert_drive_item_to_document or        *)
(* build_slim_document returns nothing) or "raise" (the conversion raises). *)
(* bat.fail says how the stream ends after its last item: "none" (it is     *)
(* exhausted), "scopes" (the retrieval raises an error whose text holds     *)
(* MISSING_SCOPES_ERROR_STR) or "other" (it raises another error).          *)
Outcomes == {"doc", "none", "raise"}
SlimOutcomes == {"doc", "none"}
Ops == {"load_from_state", "poll_source", "retrieve_all_slim_documents"}
IsSlim(op) == op = "retrieve_all_slim_documents"

SeqsUpTo(S, n) == UNION {[1..k -> S] : k \in 0..n}

\* len(batch) >= batch_size (lines 550 and 615)
BatchFull_gt(len, size) == len > size

BatchFull(len, size) == len >= size

\* lines 555-562 and 571-578: the documents of a group of raw items
documents_of_unchecked(files_batch) ==
    {files_batch[i] : i \in {j \in 1..Len(files_batch) : bat.conv[files_batch[j]] # "raise"}}

documents_of_truncated(files_batch) ==
    {files_batch[i] : i \in {j \in 2..Len(files_batch) : bat.conv[files_batch[j]] = "doc"}}

documents_of(files_batch) ==
    {files_batch[i] : i \in {j \in 1..Len(files_batch) : bat.conv[files_batch[j]] = "doc"}}

\* lines 586-589, 596-599 and 638-641: what the caller sees of an error e
CallerError_permission(e) == "PermissionError"

CallerError(e) == IF e = "scopes" THEN "PermissionError" ELSE e

\* lines 618-624: what the check after a full slim batch does with should_stop()
StopCheck_ignored(should_stop) == "progress"

StopCheck(should_stop) == IF should_stop THEN "raise" ELSE "progress"


\* ------------------------------------------------- specification SpecResolve
(* The pure function _clean_requested_drive_ids, applied to every pair of   *)
(* requested sets and every catalog over Ids.                               *)
InitResolve ==
    /\ \E rd \in SUBSET Ids, rf \in SUBSET Ids, cat \in SUBSET Ids :
        res = [requested_drive_ids |-> rd, requested_folder_ids |-> rf,
               all_drive_ids_available |-> cat, done |-> FALSE,
               drives |-> {}, folders |-> {}]
    /\ ctor = Unused /\ bat = Unused
    /\ self = Unused /\ world = Unused /\ run = Unused /\ obs = Unused

Resolve ==
    /\ ~res.done
    /\ LET r == _clean_requested_drive_ids(res.requested_drive_ids,
                                           res.requested_folder_ids,
                                           res.all_drive_ids_available)
       IN  res' = [res EXCEPT !.done = TRUE, !.drives = r[1], !.folders = r[2]]
    /\ UNCHANGED <<ctor, bat, crawlVars>>

NextResolve == Resolve

SpecResolve == InitResolve /\ [][NextResolve]_vars

\* --------------------------------------------------- specification SpecBatch
(* One call of load_from_state, poll_source or retrieve_all_slim_documents  *)
(* over a retrieval stream of at most MaxItems items.                       *)
InitBatch ==
    /\ ctor = Unused /\ res = Unused
    /\ self = Unused /\ world = Unused /\ run = Unused /\ obs = Unused
    /\ \E op \in Ops, size \in 1..MaxBatchSize, fail \in {"none", "scopes", "other"}, cb \in BOOLEAN :
       \E conv \in SeqsUpTo(IF IsSlim(op) THEN SlimOutcomes ELSE Outcomes, MaxItems) :
          /\ (cb => IsSlim(op))
          /\ bat = [op |-> op, batch_size |-> size, conv |-> conv, fail |-> fail,
                    has_callback |-> cb, should_stop |-> FALSE, emitted_at_stop |-> 0,
                    peak |-> 0,
                    pos |-> 0, files_batch |-> << >>, slim_batch |-> << >>,
                    groups |-> << >>, emitted |-> << >>, checks |-> << >>,
                    progress |-> 0, pc |-> "fetch", error |-> "none"]

\* the group files_batch is converted and its batch, if not empty, is yielded
Processed(files_batch, final) ==
    LET documents == documents_of(files_batch)
    IN  [groups |-> Append(bat.groups, [items |-> SetOf(files_batch), documents |-> documents,
                                        yielded |-> documents # {}, final |-> final]),
         emitted |-> IF documents # {}
                     THEN Append(bat.emitted, [documents |-> documents, final |-> final])
                     ELSE bat.emitted]

\* lines 547-566: one iteration of the loop of _extract_docs_from_google_drive
FullFetch ==
    /\ bat.pc = "fetch" /\ ~IsSlim(bat.op) /\ bat.pos < Len(bat.conv)
    /\ LET files_batch == Append(bat.files_batch, bat.pos + 1)
           p == Processed(files_batch, FALSE)
           peak == IF Len(files_batch) > bat.peak THEN Len(files_batch) ELSE bat.peak
       IN  IF BatchFull(Len(files_batch), bat.batch_size)
           THEN bat' = [bat EXCEPT !.pos = @ + 1, !.files_batch = << >>, !.peak = peak,
                                   !.groups = p.groups, !.emitted = p.emitted]
           ELSE bat' = [bat EXCEPT !.pos = @ + 1, !.files_batch = files_batch, !.peak = peak]
    /\ UNCHANGED <<ctor, res, crawlVars>>

\* lines 568-581: the stream is exhausted, the remaining files are processed
FullExhausted ==
    /\ bat.pc = "fetch" /\ ~IsSlim(bat.op) /\ bat.pos = Len(bat.conv) /\ bat.fail = "none"
    /\ LET p == Processed(bat.files_batch, TRUE)
       IN  IF bat.files_batch # << >>
           THEN bat' = [bat EXCEPT !.pc = "done", !.files_batch = << >>,
                                   !.groups = p.groups, !.emitted = p.emitted]
           ELSE bat' = [bat EXCEPT !.pc = "done"]
    /\ UNCHANGED <<ctor, res, crawlVars>>

\* the retrieval raises: the error leaves the loop and reaches the caller
\* through the except clause of the crawl operation
RetrievalRaises ==
    /\ bat.pc = "fetch" /\ bat.pos = Len(bat.conv) /\ bat.fail # "none"
    /\ bat' = [bat EXCEPT !.pc = "raised", !.error = CallerError(bat.fail)]
    /\ UNCHANGED <<ctor, res, crawlVars>>

\* lines 608-617: one iteration of the loop of _extract_slim_docs_from_google_drive
SlimFetch ==
    /\ bat.pc = "fetch" /\ IsSlim(bat.op) /\ bat.pos < Len(bat.conv)
    /\ LET file == bat.pos + 1
           slim_batch == IF bat.conv[file] = "doc" THEN Append(bat.slim_batch, file)
                         ELSE bat.slim_batch
       IN  IF BatchFull(Len(slim_batch), SLIM_BATCH_SIZE)
           THEN bat' = [bat EXCEPT !.pos = file, !.slim_batch = << >>,
                                   !.emitted = Append(@, [documents |-> SetOf(slim_batch), final |-> FALSE]),
                                   !.pc = IF bat.has_callback THEN "check" ELSE "fetch"]
           ELSE bat' = [bat EXCEPT !.pos = file, !.slim_batch = slim_batch]
    /\ UNCHANGED <<ctor, res, crawlVars>>

\* lines 618-624: after a full batch, the callback is asked and told
SlimCheck ==
    /\ bat.pc = "check"
    /\ IF StopCheck(bat.should_stop) = "raise"
       THEN bat' = [bat EXCEPT !.checks = Append(@, bat.should_stop), !.pc = "raised",
                               !.error = CallerError("RuntimeError")]
       ELSE bat' = [bat EXCEPT !.checks = Append(@, bat.should_stop), !.pc = "fetch",
                               !.progress = @ + 1]
    /\ UNCHANGED <<ctor, res, crawlVars>>

\* line 626: the stream is exhausted, slim_batch is yielded as it is
SlimExhausted ==
    /\ bat.pc = "fetch" /\ IsSlim(bat.op) /\ bat.pos = Len(bat.conv) /\ bat.fail = "none"
    /\ bat' = [bat EXCEPT !.pc = "done", !.slim_batch = << >>,
                          !.emitted = Append(@, [documents |-> SetOf(bat.slim_batch), final |-> TRUE])]
    /\ UNCHANGED <<ctor, res, crawlVars>>

\* the host raises the stop signal of the callback, at any time of the run
SignalStop ==
    /\ bat.pc \in {"fetch", "check"} /\ bat.has_callback /\ ~bat.should_stop
    /\ bat' = [bat EXCEPT !.should_stop = TRUE, !.emitted_at_stop = Len(bat.emitted)]
    /\ UNCHANGED <<ctor, res, crawlVars>>

NextBatch ==
    \/ FullFetch
    \/ FullExhausted
    \/ RetrievalRaises
    \/ SlimFetch
    \/ SlimCheck
    \/ SlimExhausted
    \/ SignalStop

SpecBatch == InitBatch /\ [][NextBatch]_vars

\* ---------------------------------------------------- specification SpecCtor
(* GoogleDriveConnector(...) followed by load_credentials, for every        *)
(* argument list of CtorArgs.  While no connector exists (before __init__   *)
(* returns, and for ever when it raises) self is Unused: there is no object *)
(* that could hold credentials or a ledger.                                 *)
InitCtor ==
    /\ res = Unused /\ bat = Unused
    /\ self = Unused /\ world = Unused /\ run = Unused /\ obs = Unused
    /\ \E a \in CtorArgs : ctor = [args |-> a, pc |-> "new", error |-> "none"]

\* lines 122-201: GoogleDriveConnector.__init__
Construct ==
    /\ ctor.pc = "new"
    /\ IF NothingToIndex(ctor.args)
       THEN /\ ctor' = [ctor EXCEPT !.pc = "raised", !.error = "ConnectorValidationError"]
            /\ self' = self
       ELSE /\ ctor' = [ctor EXCEPT !.pc = "constructed"]
            /\ self' = Constructed(ctor.args, "None")
    /\ UNCHANGED <<res, bat, world, run, obs>>

\* lines 233-248: load_credentials stores the credentials get_google_creds built
LoadCredentials ==
    /\ ctor.pc = "constructed"
    /\ \E creds \in {"ServiceAccountCredentials", "OAuthCredentials"} :
          self' = [self EXCEPT !._creds = creds]
    /\ ctor' = [ctor EXCEPT !.pc = "ready"]
    /\ UNCHANGED <<res, bat, world, run, obs>>

NextCtor ==
    \/ Construct
    \/ LoadCredentials

SpecCtor == InitCtor /\ [][NextCtor]_vars

\* --------------------------------------------------------- specification Spec
(* Crawl operations on one connector: construction and load_credentials     *)
(* (Init), then up to MaxRuns calls of a crawl operation, each running      *)
(* _manage_service_account_retrieval or _manage_oauth_retrieval to its end. *)
(* The generators of the principals are consumed one after the other, in    *)
(* the order as_completed hands out their futures: executor.submit only     *)
(* creates the generator, its body runs in "yield from future.result()".    *)
NoCalls == [c \in Ids |-> 0]

FreshObs(ledger) ==
    [calls |-> NoCalls,
     passed |-> [p \in Principals |-> NoCalls],
     emitted |-> NoCalls,
     producers |-> [c \in Ids |-> {}],
     my_drive_calls |-> [p \in Principals |-> 0],
     marked_by |-> [p \in Principals |-> {}],
     combined_calls |-> 0,
     catalog_calls |-> 0,
     ledger_at_start |-> ledger,
     listed_in_ledger |-> {},
     crawled_in_ledger |-> {},
     logged |-> {}]

IdleRun ==
    [no |-> 0, pc |-> "idle", todo |-> {}, cur |-> 0, phase |-> "none",
     status |-> [p \in Principals |-> "todo"], probe |-> [p \in Principals |-> 0],
     drive_ids_to_retrieve |-> {}, folder_ids_to_retrieve |-> {},
     remaining_drive_ids |-> {}, remaining_folders |-> {}, error |-> "none"]

Init ==
    /\ ctor = Unused /\ res = Unused /\ bat = Unused
    /\ \E a \in CtorArgs, creds \in {"ServiceAccountCredentials", "OAuthCredentials"} :
          /\ ~NothingToIndex(a)
          /\ self = Constructed(a, creds)
    /\ \E cat \in SUBSET Ids : \E par \in Parents(cat) :
          world = [all_drive_ids |-> cat, parent |-> par,
                   access |-> [p \in Principals |-> [c \in Ids |-> "?"]]]
    /\ run = IdleRun
    /\ obs = FreshObs({})

IsServiceAccount == self._creds = "ServiceAccountCredentials"

\* lines 376-398: _manage_service_account_retrieval up to the worker pool
StartServiceAccount ==
    /\ run.pc \in {"idle", "done", "raised"} /\ run.no < MaxRuns
    /\ IsServiceAccount
    /\ LET scope == ResolvedScope(self, world.all_drive_ids)
       IN  run' = [IdleRun EXCEPT !.no = run.no + 1, !.pc = "retrieve", !.todo = Principals,
                                  !.drive_ids_to_retrieve = scope[1],
                                  !.folder_ids_to_retrieve = scope[2]]
    /\ obs' = [FreshObs(self._retrieved_ids) EXCEPT !.catalog_calls = 1]
    /\ UNCHANGED <<ctor, res, bat, self, world>>

\* lines 433-472: _manage_oauth_retrieval up to the loop over the drives
StartOAuth ==
    /\ run.pc \in {"idle", "done", "raised"} /\ run.no < MaxRuns
    /\ ~IsServiceAccount
    /\ LET combined == IF self.include_files_shared_with_me \/ self.include_my_drives
                       THEN 1 ELSE 0
           scope == ResolvedScope(self, world.all_drive_ids)
       IN  IF all_requested(self)
           THEN /\ run' = [IdleRun EXCEPT !.no = run.no + 1, !.pc = "done"]
                /\ obs' = [FreshObs(self._retrieved_ids) EXCEPT !.combined_calls = combined]
           ELSE /\ run' = [IdleRun EXCEPT !.no = run.no + 1, !.pc = "retrieve",
                                          !.cur = 1, !.phase = "drives",
                                          !.drive_ids_to_retrieve = scope[1],
                                          !.folder_ids_to_retrieve = scope[2],
                                          !.remaining_drive_ids = scope[1]]
                /\ obs' = [FreshObs(self._retrieved_ids) EXCEPT !.combined_calls = combined,
                                                                !.catalog_calls = 1]
    /\ UNCHANGED <<ctor, res, bat, self, world>>

\* lines 314-330: the generator of principal p starts with the access probe
Probe(p) ==
    /\ run.pc = "retrieve" /\ run.cur = 0 /\ p \in run.todo
    /\ \E status_code \in {200, 401, 403} :
          IF status_code = 200
          THEN run' = [run EXCEPT !.todo = @ \ {p}, !.probe[p] = status_code,
                                  !.cur = p, !.phase = "my_drive"]
          ELSE IF OnProbeError(status_code) = "return"
          THEN run' = [run EXCEPT !.todo = @ \ {p}, !.probe[p] = status_code,
                                  !.status[p] = "denied"]
          ELSE run' = [run EXCEPT !.todo = @ \ {p}, !.probe[p] = status_code,
                                  !.status[p] = "error",
                                  !.pc = "raised", !.error = "HttpError"]
    /\ UNCHANGED <<ctor, res, bat, self, world, obs>>

\* lines 336-346: the personal drive of the principal, if it is in scope, and
\* then the drives that remain for it
MyDrive ==
    /\ run.pc = "retrieve" /\ run.phase = "my_drive"
    /\ LET wanted == my_drive_in_scope(self, EmailOf(run.cur))
       IN  \E entered \in (IF wanted THEN SUBSET (Ids \ world.all_drive_ids) ELSE {{}}) :
              /\ self' = [self EXCEPT !._retrieved_ids = @ \cup entered]
              /\ obs' = [obs EXCEPT !.my_drive_calls[run.cur] = @ + (IF wanted THEN 1 ELSE 0),
                                    !.marked_by[run.cur] = @ \cup entered]
              /\ run' = [run EXCEPT !.phase = "drives",
                                    !.remaining_drive_ids =
                                        remaining_drive_ids(run.drive_ids_to_retrieve,
                                                            self._retrieved_ids \cup entered)]
    /\ UNCHANGED <<ctor, res, bat, world>>

\* lines 347-356 and 474-485: get_files_in_shared_drive for one drive
ListDrive(drive_id) ==
    /\ run.pc = "retrieve" /\ run.phase = "drives"
    /\ drive_id \in run.remaining_drive_ids
    /\ \E acc \in AccessOf(run.cur) :
          LET reached == IF acc[drive_id] THEN {drive_id} ELSE {}
              n == IF acc[drive_id] THEN 1 ELSE 0
          IN  /\ world' = Asked(run.cur, {drive_id}, acc)
              /\ self' = [self EXCEPT !._retrieved_ids = @ \cup reached]
              /\ obs' = [obs EXCEPT !.calls[drive_id] = @ + 1,
                                    !.passed[run.cur][drive_id] = @ + 1,
                                    !.emitted[drive_id] = @ + n,
                                    !.producers[drive_id] = @ \cup (IF acc[drive_id] THEN {run.cur} ELSE {}),
                                    !.listed_in_ledger = @ \cup ({drive_id} \cap self._retrieved_ids),
                                    !.marked_by[run.cur] = @ \cup reached]
    /\ run' = [run EXCEPT !.remaining_drive_ids = @ \ {drive_id}]
    /\ UNCHANGED <<ctor, res, bat>>

\* lines 358 and 489: the loop over the drives is over
DrivesDone ==
    /\ run.pc = "retrieve" /\ run.phase = "drives"
    /\ run.remaining_drive_ids = {}
    /\ run' = [run EXCEPT !.phase = "folders",
                          !.remaining_folders =
                              remaining_folders(run.folder_ids_to_retrieve, self._retrieved_ids)]
    /\ UNCHANGED <<ctor, res, bat, self, world, obs>>

\* lines 359-368 and 490-501: crawl_folders_for_files for one folder
CrawlFolder(folder_id) ==
    /\ run.pc = "retrieve" /\ run.phase = "folders"
    /\ folder_id \in run.remaining_folders
    /\ \E acc \in AccessOf(run.cur) :
          LET called == crawl_folders_for_files(folder_id, self._retrieved_ids, acc)
              reached == {c \in called : acc[c]}
          IN  /\ world' = Asked(run.cur, called, acc)
              /\ self' = [self EXCEPT !._retrieved_ids = @ \cup reached]
              /\ obs' = [obs EXCEPT
                           !.calls = [c \in Ids |-> IF c \in called THEN @[c] + 1 ELSE @[c]],
                           !.passed[run.cur][folder_id] = @ + 1,
                           !.crawled_in_ledger = @ \cup ({folder_id} \cap self._retrieved_ids),
                           !.emitted = [c \in Ids |-> IF c \in reached THEN @[c] + 1 ELSE @[c]],
                           !.producers = [c \in Ids |-> IF c \in reached THEN @[c] \cup {run.cur} ELSE @[c]],
                           !.marked_by[run.cur] = @ \cup reached]
    /\ run' = [run EXCEPT !.remaining_folders = @ \ {folder_id}]
    /\ UNCHANGED <<ctor, res, bat>>

\* the generator of the principal is exhausted
FoldersDone ==
    /\ run.pc = "retrieve" /\ run.phase = "folders"
    /\ run.remaining_folders = {}
    /\ run' = [run EXCEPT !.phase = "none", !.status[run.cur] = "done", !.cur = 0]
    /\ UNCHANGED <<ctor, res, bat, self, world, obs>>

\* lines 419-425 and 503-509: the containers that were not retrieved are logged
ReportGaps ==
    /\ run.pc = "retrieve" /\ run.cur = 0 /\ run.todo = {}
    /\ run' = [run EXCEPT !.pc = "done"]
    /\ obs' = [obs EXCEPT !.logged = not_retrieved(run.drive_ids_to_retrieve,
                                                   run.folder_ids_to_retrieve,
                                                   self._retrieved_ids)]
    /\ UNCHANGED <<ctor, res, bat, self, world>>

\* lines 400-417: the principals whose generator has started and is not
\* exhausted
InProgress == IF run.pc = "retrieve" /\ run.cur # 0 THEN {run.cur} ELSE {}

Next ==
    \/ StartServiceAccount
    \/ StartOAuth
    \/ \E p \in Principals : Probe(p)
    \/ MyDrive
    \/ \E d \in Ids : ListDrive(d)
    \/ DrivesDone
    \/ \E f \in Ids : CrawlFolder(f)
    \/ FoldersDone
    \/ ReportGaps

Spec == Init /\ [][Next]_vars

\* ------------------------------------------------------------------ claims

\* C2: every requested drive ID that is not in the catalog is in the
\* resolved folder set and not in the resolved drive set, and every requested
\* drive ID that is in the catalog is in the resolved drive set.
C2_Resolved ==
    res.done =>
        \A d \in res.requested_drive_ids :
            /\ d \notin res.all_drive_ids_available
                   => d \in res.folders /\ d \notin res.drives
            /\ d \in res.all_drive_ids_available => d \in res.drives

\* the scenario of C2: the drive list names folder 1, which no catalog has
C2_Witness ==
    /\ res.done
    /\ res.requested_drive_ids = {1}
    /\ res.requested_folder_ids = {}
    /\ 1 \notin res.all_drive_ids_available
    /\ res.drives = {}
    /\ res.folders = {1}
\* C6: in the full-document path the documents of a group are exactly its
\* items whose conversion returned a record (an item whose conversion raises
\* or returns nothing is absent); the batch of a group is yielded if and only
\* if one of its items converted; and a failed conversion never ends the run:
\* the run only raises when the retrieval raises, and a run that is done has
\* processed every item of the stream.
C6_FailedItemsDropped ==
    ~IsSlim(bat.op) =>
        /\ \A i \in 1..Len(bat.groups) :
              LET g == bat.groups[i]
              IN  /\ g.documents = {k \in g.items : bat.conv[k] = "doc"}
                  /\ g.yielded <=> (\E k \in g.items : bat.conv[k] = "doc")
        /\ \A j \in 1..Len(bat.emitted) :
              /\ \A k \in bat.emitted[j].documents : bat.conv[k] = "doc"
              /\ \E i \in 1..Len(bat.groups) :
                    bat.groups[i].yielded /\ bat.groups[i].documents = bat.emitted[j].documents
        /\ Len(bat.emitted) = Cardinality({i \in 1..Len(bat.groups) : bat.groups[i].yielded})
        /\ bat.pc = "raised" => bat.fail # "none" /\ bat.pos = Len(bat.conv)
        /\ bat.pc = "done" => UNION {bat.groups[i].items : i \in 1..Len(bat.groups)} = 1..Len(bat.conv)

\* a group whose conversions all failed gave no batch, the run went on, and
\* the next group lost one item and was still yielded
C6_Witness ==
    /\ ~IsSlim(bat.op)
    /\ bat.pc = "done"
    /\ Len(bat.groups) = 2
    /\ ~bat.groups[1].yielded
    /\ bat.groups[2].yielded
    /\ bat.groups[2].documents # bat.groups[2].items
    /\ Len(bat.emitted) = 1

\* C7: every emitted batch holds at most batch_size records (SLIM_BATCH_SIZE
\* in the lightweight path); a batch that is not the last of its run is
\* smaller than that only by the items of its group that were dropped.
C7_BatchSizeBound ==
    /\ \A j \in 1..Len(bat.emitted) :
          /\ Cardinality(bat.emitted[j].documents)
                <= (IF IsSlim(bat.op) THEN SLIM_BATCH_SIZE ELSE bat.batch_size)
          /\ IsSlim(bat.op) /\ ~bat.emitted[j].final
                => Cardinality(bat.emitted[j].documents) = SLIM_BATCH_SIZE
    /\ ~IsSlim(bat.op) =>
          \A i \in 1..Len(bat.groups) :
              LET g == bat.groups[i]
              IN  /\ Cardinality(g.items) <= bat.batch_size
                  /\ ~g.final =>
                        /\ Cardinality(g.items) = bat.batch_size
                        /\ Cardinality(g.documents)
                             = bat.batch_size - Cardinality({k \in g.items : bat.conv[k] # "doc"})

\* a full crawl that yielded a full batch and then a smaller last batch
C7_Witness ==
    /\ ~IsSlim(bat.op)
    /\ bat.pc = "done"
    /\ bat.batch_size = 2
    /\ Len(bat.emitted) = 2
    /\ Cardinality(bat.emitted[1].documents) = 2
    /\ Cardinality(bat.emitted[2].documents) = 1
    /\ bat.emitted[2].final

\* C8 (as stated): in the lightweight crawl, when the check after the first
\* batch finds the stop signal raised, exactly one batch has been emitted and
\* the operation ends without an error reaching the caller.
C8_StopEndsWithoutError ==
    (IsSlim(bat.op) /\ Len(bat.checks) >= 1 /\ bat.checks[1])
        => Len(bat.emitted) = 1 /\ bat.error = "none"

\* C8 (amended): in the lightweight crawl, when the check after the first
\* batch finds the stop signal raised, exactly one batch has been emitted and
\* the operation has ended by raising RuntimeError to the caller.
C8_StopRaisesAfterOneBatch ==
    (IsSlim(bat.op) /\ Len(bat.checks) >= 1 /\ bat.checks[1])
        => /\ Len(bat.emitted) = 1
           /\ Len(bat.checks) = 1
           /\ bat.pc = "raised"
           /\ bat.error = "RuntimeError"

\* the stop signal was raised before the check that follows the first batch
C8_Witness ==
    /\ IsSlim(bat.op)
    /\ bat.has_callback
    /\ bat.checks = <<TRUE>>
    /\ Len(bat.emitted) = 1
    /\ bat.pos < Len(bat.conv)

\* C9: every batch a crawl operation delivers is non-empty.
C9_NoEmptyBatch ==
    \A j \in 1..Len(bat.emitted) : bat.emitted[j].documents # {}
\* C1: within one run no container ID is passed to a per-container listing
\* call (get_files_in_shared_drive, crawl_folders_for_files) more than once.
C1_ListedAtMostOnce ==
    \A c \in Ids : obs.calls[c] <= 1

\* C3: in impersonation mode a principal whose access probe fails with 401
\* yields no item, makes no personal-drive, drive or folder listing call and
\* marks nothing; its failure raises nothing (a run only raises for a probe
\* that failed with another status); and a run that is done has processed
\* every principal of the roster.
C3_DeniedPrincipalIsSkipped ==
    /\ \A p \in Principals :
          run.probe[p] = 401 =>
              /\ run.status[p] = "denied"
              /\ \A c \in Ids : obs.passed[p][c] = 0 /\ p \notin obs.producers[c]
              /\ obs.my_drive_calls[p] = 0
              /\ obs.marked_by[p] = {}
    /\ run.pc = "raised" => \E p \in Principals : run.probe[p] \notin {0, 200, 401}
    /\ (run.pc = "done" /\ IsServiceAccount) =>
          \A p \in Principals : run.probe[p] \in {200, 401}
                                  /\ (run.probe[p] = 200 => run.status[p] = "done")

\* a finished run in which principal 2 was denied and principal 1 retrieved a
\* container
C3_Witness ==
    /\ IsServiceAccount
    /\ run.pc = "done"
    /\ run.probe[2] = 401
    /\ run.probe[1] = 200
    /\ \E c \in Ids : obs.producers[c] = {1}

\* C4: at the end of a run in impersonation mode, every drive of the resolved
\* drive scope that some principal that passed the probe can list has its
\* items in the output exactly once, produced by principals that passed the
\* probe.
C4_EveryDriveOnce ==
    (IsServiceAccount /\ run.pc = "done") =>
        \A d \in run.drive_ids_to_retrieve :
            (\E p \in Principals : run.probe[p] = 200 /\ world.access[p][d] # "no")
                => /\ obs.emitted[d] = 1
                   /\ \A p \in obs.producers[d] : run.probe[p] = 200

\* C4, for the first call on a connector only
C4_EveryDriveOnceInFirstRun ==
    run.no = 1 => C4_EveryDriveOnce

\* C5: in delegated-access mode with the three coarse flags set, a run makes
\* exactly one combined retrieval call and is over: no catalog listing, no
\* drive listing and no folder crawl is made.
C5_OneCombinedCall ==
    (/\ ~IsServiceAccount
     /\ self.include_files_shared_with_me /\ self.include_my_drives /\ self.include_shared_drives
     /\ run.no >= 1)
        => /\ run.pc = "done"
           /\ obs.combined_calls = 1
           /\ obs.catalog_calls = 0
           /\ \A c \in Ids : obs.calls[c] = 0
           /\ self._retrieved_ids = {}

\* a delegated-access run with the three flags set has ended
C5_Witness ==
    /\ ~IsServiceAccount
    /\ self.include_files_shared_with_me /\ self.include_my_drives /\ self.include_shared_drives
    /\ run.no = 1
    /\ run.pc = "done"
    /\ obs.combined_calls = 1

\* C10: every call of a crawl operation starts with an empty ledger, and
\* lists every drive of the resolved scope that was listed by a principal
\* that is processed in this call.
C10_FreshLedgerPerCall ==
    /\ run.no >= 1 => obs.ledger_at_start = {}
    /\ run.pc = "done" =>
          \A d \in run.drive_ids_to_retrieve :
              (\E p \in Principals : run.status[p] = "done" /\ world.access[p][d] = "yes")
                  => obs.calls[d] >= 1

\* C11: after construction, if any of the three request parameters was given
\* (a non-empty text), the three coarse flags of the connector are false
\* whatever flags the caller passed; so a run of this connector makes no
\* combined retrieval, its drive scope holds only requested drive IDs for
\* every catalog, and the personal drive of a principal is in scope only if
\* its address was requested.
C11_ExplicitRequestsForceFlagsOff ==
    (/\ ctor.pc \in {"constructed", "ready"}
     /\ \/ ctor.args.shared_drive_urls \notin {NoneStr, <<EmptyField>>}
        \/ ctor.args.my_drive_emails \notin {NoneStr, <<EmptyField>>}
        \/ ctor.args.shared_folder_urls \notin {NoneStr, <<EmptyField>>})
        => /\ ~self.include_my_drives
           /\ ~self.include_files_shared_with_me
           /\ ~self.include_shared_drives
           /\ ~all_requested(self)
           /\ \A cat \in SUBSET Ids :
                 ResolvedScope(self, cat)[1] \subseteq self._requested_shared_drive_ids
           /\ \A p \in Principals :
                 my_drive_in_scope(self, EmailOf(p)) => EmailOf(p) \in self._requested_my_drive_emails

\* the caller passed the three flags set together with a folder URL
C11_Witness ==
    /\ ctor.pc = "ready"
    /\ ctor.args.include_shared_drives
    /\ ctor.args.include_my_drives
    /\ ctor.args.include_files_shared_with_me
    /\ ctor.args.shared_folder_urls # NoneStr
    /\ ctor.args.shared_drive_urls = NoneStr
    /\ ~self.include_shared_drives
    /\ self._requested_folder_ids = {1}

\* C12: when a run has passed ReportGaps, every drive or folder ID the caller
\* requested that is not in the ledger is in the logged set of containers that
\* were not retrieved (and the run is done: reporting raised nothing).
C12_GapsLogged ==
    run.pc = "done" =>
        ((self._requested_shared_drive_ids \cup self._requested_folder_ids)
             \ self._retrieved_ids) \subseteq obs.logged

\* C12, for the IDs of the resolved scope only
C12_ResolvedGapsLogged ==
    run.pc = "done" =>
        ((run.drive_ids_to_retrieve \cup run.folder_ids_to_retrieve)
             \ self._retrieved_ids) \subseteq obs.logged

\* C13: in the three crawl operations, when the retrieval raises, the run is
\* over with the error at the caller, PermissionError if the error's text
\* holds the missing-scope signature and the error itself otherwise; the
\* items that were waiting for their batch are in no batch, no batch was
\* emitted as the last one, and a run never ends normally over a retrieval
\* that raises.
C13_RetrievalErrorReachesCaller ==
    LET stopped == Len(bat.checks) >= 1 /\ bat.checks[Len(bat.checks)]
    IN  /\ (bat.pc = "raised" /\ ~stopped) =>
              /\ bat.fail # "none"
              /\ bat.error = (IF bat.fail = "scopes" THEN "PermissionError" ELSE "other")
              /\ \A j \in 1..Len(bat.emitted) :
                    /\ ~bat.emitted[j].final
                    /\ bat.emitted[j].documents \cap SetOf(bat.slim_batch) = {}
              /\ \A i \in 1..Len(bat.groups) :
                    bat.groups[i].items \cap SetOf(bat.files_batch) = {}
        /\ bat.pc = "done" => bat.fail = "none" /\ bat.error = "none"

\* a lightweight crawl emitted one batch and held a record for the next one
\* when the retrieval raised the missing-scope error
C13_Witness ==
    /\ IsSlim(bat.op)
    /\ bat.fail = "scopes"
    /\ bat.pc = "raised"
    /\ bat.error = "PermissionError"
    /\ Len(bat.emitted) = 1
    /\ bat.slim_batch # << >>

\* C14: constructing the connector with the three coarse flags off and with
\* no shared drive URL, no shared folder URL and no personal-drive address
\* raises ConnectorValidationError: no connector exists afterwards, so no
\* credentials are ever loaded and there is no ledger.
C14_NothingToIndexFails ==
    LET a == ctor.args
        nothing_listed(string) == \A i \in 1..Len(string) : string[i].segs = << >>
    IN  (/\ ctor.pc # "new"
         /\ ~a.include_shared_drives /\ ~a.include_my_drives /\ ~a.include_files_shared_with_me
         /\ nothing_listed(a.shared_drive_urls)
         /\ nothing_listed(a.shared_folder_urls)
         /\ nothing_listed(a.my_drive_emails))
            => /\ ctor.pc = "raised"
               /\ ctor.error = "ConnectorValidationError"
               /\ self = Unused

\* C14, for request parameters that are None or the empty text only
C14_AbsentParametersFail ==
    LET a == ctor.args
    IN  (/\ ctor.pc # "new"
         /\ ~a.include_shared_drives /\ ~a.include_my_drives /\ ~a.include_files_shared_with_me
         /\ a.shared_drive_urls \in {NoneStr, <<EmptyField>>}
         /\ a.shared_folder_urls \in {NoneStr, <<EmptyField>>}
         /\ a.my_drive_emails \in {NoneStr, <<EmptyField>>})
            => /\ ctor.pc = "raised"
               /\ ctor.error = "ConnectorValidationError"
               /\ self = Unused

\* C15: a lightweight crawl with a callback whose stop signal was never
\* raised has, at its end, made as many progress calls as it emitted batches.
C15_ProgressPerBatch ==
    (IsSlim(bat.op) /\ bat.has_callback /\ ~bat.should_stop /\ bat.pc = "done")
        => bat.progress = Len(bat.emitted)

\* C15, for the batches emitted inside the loop only
C15_ProgressPerFullBatch ==
    (IsSlim(bat.op) /\ bat.has_callback /\ ~bat.should_stop /\ bat.pc = "done")
        => bat.progress = Cardinality({j \in 1..Len(bat.emitted) : ~bat.emitted[j].final})

\* C16: crawl_folders_for_files is called for a requested folder only while
\* the folder's ID is not in the ledger.
C16_CrawlOnlyUnvisited ==
    obs.crawled_in_ledger = {}

\* C17: in delegated-access mode no drive and no folder whose ID is in the
\* ledger when its turn comes is passed to a listing call, and a run that is
\* done has listed every container of the resolved scope that was not in the
\* ledger at its turn.
C17_OAuthSkipsVisited ==
    ~IsServiceAccount =>
        /\ obs.listed_in_ledger = {}
        /\ obs.crawled_in_ledger = {}
        /\ run.pc = "done" =>
              \A c \in run.drive_ids_to_retrieve \cup run.folder_ids_to_retrieve :
                  obs.calls[c] >= 1 \/ c \in self._retrieved_ids

C19_PrincipalsOverlap ==
    \A p \in Principals, q \in Principals :
        (IsServiceAccount /\ p \in InProgress /\ q \in run.todo) => ENABLED Probe(q)

\* C20: in the lightweight crawl with a callback, should_stop() is asked once
\* directly after every full batch and at no other time; once the signal is
\* raised at most one more batch is emitted; and a check that finds the
\* signal raised ends the run with no further batch.
C20_StopCheckedBetweenBatches ==
    (IsSlim(bat.op) /\ bat.has_callback) =>
        LET full == {j \in 1..Len(bat.emitted) : ~bat.emitted[j].final}
        IN  /\ Len(bat.checks) + (IF bat.pc = "check" THEN 1 ELSE 0) = Cardinality(full)
            /\ bat.pc = "check" =>
                  /\ bat.slim_batch = << >>
                  /\ Len(bat.emitted) \in full
                  /\ Cardinality(bat.emitted[Len(bat.emitted)].documents) = SLIM_BATCH_SIZE
            /\ bat.should_stop => Len(bat.emitted) <= bat.emitted_at_stop + 1
            /\ \A i \in 1..Len(bat.checks) :
                  bat.checks[i] => /\ i = Len(bat.checks)
                                   /\ bat.pc = "raised"
                                   /\ Len(bat.emitted) = i

\* the signal was raised while the second batch was being filled: that batch
\* was still emitted, and the check after it ended the run
C20_Witness ==
    /\ IsSlim(bat.op)
    /\ bat.has_callback
    /\ bat.should_stop
    /\ bat.emitted_at_stop = 1
    /\ bat.checks = <<FALSE, TRUE>>
    /\ Len(bat.emitted) = 2
    /\ bat.pc = "raised"

\* C21: in impersonation mode the personal drive of a principal is enumerated
\* only after the principal passed the access probe and only if the own-drive
\* flag is on or its address was requested, and then once; at the end of a
\* run every such principal had its personal drive enumerated.
C21_MyDriveIffInScope ==
    IsServiceAccount =>
        \A p \in Principals :
            LET in_scope == \/ self.include_my_drives
                            \/ EmailOf(p) \in self._requested_my_drive_emails
            IN  /\ obs.my_drive_calls[p] <= 1
                /\ obs.my_drive_calls[p] = 1 => run.probe[p] = 200 /\ in_scope
                /\ (run.pc = "done" /\ run.probe[p] = 200 /\ in_scope)
                       => obs.my_drive_calls[p] = 1

\* only the address of principal 1 was requested: both principals passed the
\* probe and only the personal drive of principal 1 was enumerated
C21_Witness ==
    /\ IsServiceAccount
    /\ run.pc = "done"
    /\ self._requested_my_drive_emails = {EmailOf(1)}
    /\ run.probe[1] = 200 /\ run.probe[2] = 200
    /\ obs.my_drive_calls[1] = 1
    /\ obs.my_drive_calls[2] = 0

\* C22: _clean_requested_drive_ids loses no requested container: every
\* requested drive ID and every requested folder ID is in the resolved drive
\* set or in the resolved folder set.
C22_NothingLost ==
    res.done =>
        (res.requested_drive_ids \cup res.requested_folder_ids)
            \subseteq (res.drives \cup res.folders)

\* C22, for the requested drive IDs only
C22_NoDriveLost ==
    res.done => res.requested_drive_ids \subseteq (res.drives \cup res.folders)

\* C23: every connector the constructor returns has a scope: one of its three
\* coarse flags is on, or one of its three parsed request sets is not empty.
C23_ScopeNonEmpty ==
    ctor.pc \in {"constructed", "ready"} =>
        \/ self.include_shared_drives
        \/ self.include_my_drives
        \/ self.include_files_shared_with_me
        \/ self._requested_shared_drive_ids # {}
        \/ self._requested_folder_ids # {}
        \/ self._requested_my_drive_emails # {}

\* C23, for constructor calls whose request strings are None, empty, or list
\* at least one entry each
C23_ScopeNonEmptyForListedRequests ==
    LET a == ctor.args
        lists_nothing(string) ==
            string # NoneStr /\ string # <<EmptyField>>
                /\ \A i \in 1..Len(string) : string[i].segs = << >>
    IN  (/\ ctor.pc \in {"constructed", "ready"}
         /\ ~lists_nothing(a.shared_drive_urls)
         /\ ~lists_nothing(a.shared_folder_urls)
         /\ ~lists_nothing(a.my_drive_emails))
            => C23_ScopeNonEmpty

\* C24: in the full-document path the raw items pulled from the stream and
\* not yet processed are never more than batch_size: files_batch never grew
\* beyond batch_size, the items that are in no processed group are exactly
\* the ones waiting in files_batch, every group was processed before any
\* item of a later group was pulled, and every group's batch was emitted
\* before the next group's.
C24_PendingItemsBounded ==
    ~IsSlim(bat.op) =>
        LET processed == UNION {bat.groups[i].items : i \in 1..Len(bat.groups)}
        IN  /\ bat.peak <= bat.batch_size
            /\ Len(bat.files_batch) <= bat.batch_size
            /\ (1..bat.pos) \ processed = SetOf(bat.files_batch)
            /\ \A i \in 1..Len(bat.groups) : \A j \in 1..Len(bat.groups) :
                  i < j => \A k \in bat.groups[i].items : \A l \in bat.groups[j].items : k < l
            /\ \A i \in 1..Len(bat.emitted) : \A j \in 1..Len(bat.emitted) :
                  i < j => \A k \in bat.emitted[i].documents :
                               \A l \in bat.emitted[j].documents : k < l

\* files_batch reached batch_size and was processed, and the next group is
\* being filled
C24_Witness ==
    /\ ~IsSlim(bat.op)
    /\ bat.batch_size = 2
    /\ bat.peak = 2
    /\ Len(bat.groups) = 1
    /\ Len(bat.files_batch) = 1
    /\ bat.pos = 3

\* C25: when a run has ended normally, the records of the emitted batches are
\* the items of the stream whose conversion gave a record, each of them in
\* exactly one batch.
C25_NoRecordLostOrDuplicated ==
    bat.pc = "done" =>
        LET converted == {k \in 1..Len(bat.conv) : bat.conv[k] = "doc"}
        IN  /\ bat.pos = Len(bat.conv)
            /\ UNION {bat.emitted[j].documents : j \in 1..Len(bat.emitted)} = converted
            /\ \A k \in converted :
                  Cardinality({j \in 1..Len(bat.emitted) : k \in bat.emitted[j].documents}) = 1

\* a full crawl over four items, one of which failed to convert, has ended
\* with its three records in two batches
C25_Witness ==
    /\ ~IsSlim(bat.op)
    /\ bat.pc = "done"
    /\ Len(bat.conv) = 4
    /\ Cardinality({k \in 1..4 : bat.conv[k] = "doc"}) = 3
    /\ Len(bat.emitted) = 2
====
